---- MODULE Spec2Model ----
(***************************************************************************)
(* Model of src/app/page.tsx: the Home component of the drug-development   *)
(* research explorer.  The React state of the component, the searchPapers  *)
(* submit handler with its two awaited provider calls, the XML record      *)
(* parser inside it, and the render conditions of the JSX.                 *)
(*                                                                         *)
(* Texts that the code trims (the query, the author names) are sequences   *)
(* of one-character strings; all other texts are strings.                  *)
(***************************************************************************)
EXTENDS Integers, Sequences, FiniteSets, TLC

VARIABLES
    query,        \* useState('')            page.tsx:17
    papers,       \* useState<Paper[]>([])   page.tsx:18
    loading,      \* useState(false)         page.tsx:19
    error,        \* useState('')            page.tsx:20
    resultCount,  \* useState(0)             page.tsx:21
    maxResults,   \* useState('20')          page.tsx:22
    sortBy,       \* useState('relevance')   page.tsx:23
    inflight,     \* the searchPapers invocations suspended at an await
    outcome,      \* exit taken by the last searchPapers invocation that finished
    searchSeen,   \* identifier-search response that invocation received
    fetchSeen,    \* detail-fetch response that invocation received
    writer,       \* whether the last write of the display state came from the
                  \* most recently submitted search ("latest") or an older one ("stale")
    rejected      \* whether the last event handled was a submit that returned at page.tsx:27

vars == <<query, papers, loading, error, resultCount, maxResults, sortBy,
          inflight, outcome, searchSeen, fetchSeen, writer, rejected>>

uiState == <<query, papers, loading, error, resultCount, maxResults, sortBy>>

----------------------------------------------------------------------------
(* Bounds of the model *)

MaxQueryLen == 2     \* longest query typed
MaxIds == 3          \* most identifiers in an identifier-search response
MaxArticles == 3     \* most PubmedArticle nodes in a detail payload
MaxAuthors == 6      \* most Author nodes in one article
MaxInflight == 2     \* most searchPapers invocations suspended at once

(* Program constants *)

AuthorCap == 5       \* authors.slice(0, 5), paper.authors.length === 5

----------------------------------------------------------------------------
(* Texts *)

Whitespace == {" "}
Chars == {" ", "a"}

RECURSIVE SeqsUpTo(_, _)
SeqsUpTo(S, n) ==
    IF n = 0 THEN {<<>>}
    ELSE LET shorter == SeqsUpTo(S, n - 1)
         IN  shorter \cup {Append(s, c) : s \in {t \in shorter : Len(t) = n - 1}, c \in S}

RECURSIVE TrimStart(_)
TrimStart(s) ==
    IF s # <<>> /\ Head(s) \in Whitespace THEN TrimStart(Tail(s)) ELSE s

RECURSIVE TrimEnd(_)
TrimEnd(s) ==
    IF s # <<>> /\ s[Len(s)] \in Whitespace THEN TrimEnd(SubSeq(s, 1, Len(s) - 1)) ELSE s

\* String.prototype.trim
TrimNoOp(s) == s
Trim(s) == TrimEnd(TrimStart(s))

\* a || b on texts: the empty text is falsy
OrElse(a, b) == IF a = "" THEN b ELSE a

Min(a, b) == IF a <= b THEN a ELSE b

\* Array.prototype.slice(0, n)
Slice0(s, n) == SubSeq(s, 1, Min(n, Len(s)))

----------------------------------------------------------------------------
(* The detail payload: PubmedArticle nodes as the parser's selectors see   *)
(* them.  An element is present or not, and has a text content.            *)

El(t) == [present |-> TRUE, text |-> t]
NoEl(t) == [present |-> FALSE, text |-> t]

Digits == <<"1", "2", "3", "4", "5", "6", "7", "8", "9">>

\* Author node i of an article, of a kind saying which name elements it has
AuthorKinds == {"both", "lastOnly", "foreOnly", "neither"}
AuthorNode(kind, i) ==
    [LastName |-> IF kind \in {"both", "lastOnly"} THEN El(<<"L", Digits[i]>>) ELSE NoEl(<<>>),
     ForeName |-> IF kind \in {"both", "foreOnly"} THEN El(<<"F", Digits[i]>>) ELSE NoEl(<<>>)]

AuthorNodes(kinds) == [i \in 1..Len(kinds) |-> AuthorNode(kinds[i], i)]

\* Article node i: which of title and PMID it has, and its Author nodes
TitleKinds == {"text", "empty", "absent"}
ArticleNode(titleKind, hasPmid, hasRest, kinds, i) ==
    [ArticleTitle |-> CASE titleKind = "text" -> El("T" \o ToString(i))
                        [] titleKind = "empty" -> El("")
                        [] OTHER -> NoEl(""),
     PMID         |-> IF hasPmid THEN El("P" \o ToString(i)) ELSE NoEl(""),
     AbstractText |-> IF hasRest THEN El("abstract") ELSE NoEl(""),
     JournalTitle |-> IF hasRest THEN El("journal") ELSE NoEl(""),
     Year         |-> IF hasRest THEN El("2024") ELSE NoEl(""),
     Doi          |-> IF hasRest THEN El("10.1/x") ELSE NoEl(""),
     Author       |-> AuthorNodes(kinds)]

----------------------------------------------------------------------------
(* RecordParser: page.tsx:58-92 *)

\* page.tsx:73-77, one step of authorEls.forEach
PushAuthor(authors, author) ==
    LET lastName == IF author.LastName.present THEN author.LastName.text ELSE <<>>
        foreName == IF author.ForeName.present THEN author.ForeName.text ELSE <<>>
    IN  IF lastName # <<>> \/ foreName # <<>>
        THEN Append(authors, Trim(foreName \o <<" ">> \o lastName))
        ELSE authors

\* page.tsx:70-78
RECURSIVE CollectAuthors(_, _)
CollectAuthors(authorEls, authors) ==
    IF authorEls = <<>> THEN authors
    ELSE CollectAuthors(Tail(authorEls), PushAuthor(authors, Head(authorEls)))

\* page.tsx:84
KeepAllAuthors(authors) == authors
KeepAuthors(authors) == Slice0(authors, AuthorCap)

\* page.tsx:80
HasEither(article) == article.ArticleTitle.present \/ article.PMID.present
HasRequired(article) == article.ArticleTitle.present /\ article.PMID.present

\* page.tsx:81-90
MakePaper(article) ==
    [id       |-> OrElse(article.PMID.text, ""),
     title    |-> OrElse(article.ArticleTitle.text, ""),
     authors  |-> KeepAuthors(CollectAuthors(article.Author, <<>>)),
     abstract |-> IF article.AbstractText.present
                  THEN OrElse(article.AbstractText.text, "No abstract available")
                  ELSE "No abstract available",
     journal  |-> IF article.JournalTitle.present
                  THEN OrElse(article.JournalTitle.text, "Unknown Journal")
                  ELSE "Unknown Journal",
     year     |-> IF article.Year.present THEN OrElse(article.Year.text, "N/A") ELSE "N/A",
     pmid     |-> OrElse(article.PMID.text, ""),
     doi      |-> IF article.Doi.present /\ article.Doi.text # ""
                  THEN El(article.Doi.text) ELSE NoEl("")]

\* page.tsx:60-92, articles.forEach
RECURSIVE ParseArticles(_, _)
ParseArticles(articles, parsedPapers) ==
    IF articles = <<>> THEN parsedPapers
    ELSE ParseArticles(Tail(articles),
                       IF HasRequired(Head(articles))
                       THEN Append(parsedPapers, MakePaper(Head(articles)))
                       ELSE parsedPapers)

----------------------------------------------------------------------------
(* The provider's responses.  fetch() rejects on a network failure and     *)
(* resolves on any HTTP status; ok is Response.ok (a 2xx status).          *)

NoResponse == [net |-> FALSE, ok |-> FALSE, body |-> [kind |-> "none"]]
NetworkFailure == [net |-> FALSE, ok |-> FALSE, body |-> [kind |-> "rejected"]]

\* Body of an identifier-search response: not JSON, or a JSON envelope
NotJson == [kind |-> "notJson"]
Envelope(hasResult, hasIdlist, idlist, count) ==
    [kind |-> "json", hasResult |-> hasResult, hasIdlist |-> hasIdlist,
     idlist |-> idlist, count |-> count]

IdList(n) == [i \in 1..n |-> "P" \o ToString(i)]

CountTexts ==
    {NoEl(<<>>), El(<<"0">>), El(<<"3">>), El(<<"1", "2", "3", "4">>)}

SearchResponses ==
    {NetworkFailure}
    \cup {[net |-> TRUE, ok |-> FALSE, body |-> b] :
            b \in {NotJson, Envelope(FALSE, FALSE, <<>>, NoEl(<<>>))}}
    \cup {[net |-> TRUE, ok |-> TRUE, body |-> b] :
            b \in {NotJson,
                   Envelope(FALSE, FALSE, <<>>, NoEl(<<>>)),
                   Envelope(TRUE, FALSE, <<>>, NoEl(<<>>)),
                   Envelope(TRUE, TRUE, <<>>, El(<<"0">>))}
                  \cup {Envelope(TRUE, TRUE, IdList(n), c) : n \in 1..MaxIds, c \in CountTexts}}

\* Body of a detail-fetch response: the PubmedArticle nodes of the parsed text
\* (none when the text is an error page or not XML)
Shapes == {"complete", "noTitle"}
ShapedArticle(shape, i) == ArticleNode(IF shape = "complete" THEN "text" ELSE "absent",
                                       TRUE, shape = "complete", <<"both">>, i)
Docs == {[i \in 1..Len(shapes) |-> ShapedArticle(shapes[i], i)] :
            shapes \in SeqsUpTo(Shapes, MaxArticles)}

XmlBody(doc) == [kind |-> "xml", doc |-> doc]

FetchResponses ==
    {NetworkFailure, [net |-> TRUE, ok |-> FALSE, body |-> XmlBody(<<>>)]}
    \cup {[net |-> TRUE, ok |-> TRUE, body |-> XmlBody(d)] : d \in Docs}

----------------------------------------------------------------------------
(* searchPapers: page.tsx:25-101 *)

NoResultsMessage == "No research papers found. Try different keywords."
FailedMessage == "Failed to fetch research papers. Please try again."

DigitValue(c) ==
    CASE c = "0" -> 0 [] c = "1" -> 1 [] c = "2" -> 2 [] c = "3" -> 3 [] c = "4" -> 4
      [] c = "5" -> 5 [] c = "6" -> 6 [] c = "7" -> 7 [] c = "8" -> 8 [] c = "9" -> 9
      [] OTHER -> -1

\* parseInt on the leading digits of a text; nan when there is none
RECURSIVE ParseDigits(_, _)
ParseDigits(s, acc) ==
    IF s = <<>> \/ DigitValue(Head(s)) < 0 THEN acc
    ELSE ParseDigits(Tail(s), 10 * acc + DigitValue(Head(s)))

ParseInt(el) ==
    IF ~el.present \/ el.text = <<>> \/ DigitValue(Head(el.text)) < 0
    THEN [nan |-> TRUE, value |-> 0]
    ELSE [nan |-> FALSE, value |-> ParseDigits(el.text, 0)]

\* page.tsx:48, parseInt(searchData.esearchresult.count) || 0
IdCount(body) == Len(body.idlist)
TotalCount(body) ==
    LET n == ParseInt(body.count) IN IF n.nan \/ n.value = 0 THEN 0 ELSE n.value

\* page.tsx:41, !searchData.esearchresult?.idlist?.length
ZeroIdsOnlyIfMissing(body) == ~body.hasResult \/ ~body.hasIdlist
ZeroIds(body) == ~body.hasResult \/ ~body.hasIdlist \/ Len(body.idlist) = 0

\* page.tsx:38-39, await fetch(searchUrl) or await searchResponse.json() throws
SearchThrows(r) == ~r.net \/ r.body.kind = "notJson"

\* page.tsx:52-53, await fetch(fetchUrl) throws
FetchThrows(r) == ~r.net

\* page.tsx:119, disabled={loading} on the form's only submit button
AlwaysEnabled == TRUE
CanSubmit == ~loading

\* page.tsx:31, setPapers([])
KeptPapers == papers
ClearedPapers == <<>>

\* page.tsx:99, finally { setLoading(false) }
StillLoading == loading
FinallyLoading == FALSE

Invocation(pc, r) == [pc |-> pc, latest |-> TRUE, searchResponse |-> r]

Superseded(invs) == [i \in 1..Len(invs) |-> [invs[i] EXCEPT !.latest = FALSE]]

Without(invs, i) == SubSeq(invs, 1, i - 1) \o SubSeq(invs, i + 1, Len(invs))

WriterOf(inv) == IF inv.latest THEN "latest" ELSE "stale"

Init ==
    /\ query = <<>>
    /\ papers = <<>>
    /\ loading = FALSE
    /\ error = ""
    /\ resultCount = 0
    /\ maxResults = "20"
    /\ sortBy = "relevance"
    /\ inflight = <<>>
    /\ outcome = "Idle"
    /\ searchSeen = NoResponse
    /\ fetchSeen = NoResponse
    /\ writer = "latest"
    /\ rejected = FALSE

\* page.tsx:117
SetQuery(q) ==
    /\ q # query
    /\ query' = q
    /\ rejected' = FALSE
    /\ UNCHANGED <<papers, loading, error, resultCount, maxResults, sortBy,
                   inflight, outcome, searchSeen, fetchSeen, writer>>

\* page.tsx:130
SetMaxResults(m) ==
    /\ m # maxResults
    /\ maxResults' = m
    /\ rejected' = FALSE
    /\ UNCHANGED <<query, papers, loading, error, resultCount, sortBy,
                   inflight, outcome, searchSeen, fetchSeen, writer>>

\* page.tsx:144
SetSortBy(s) ==
    /\ s # sortBy
    /\ sortBy' = s
    /\ rejected' = FALSE
    /\ UNCHANGED <<query, papers, loading, error, resultCount, maxResults,
                   inflight, outcome, searchSeen, fetchSeen, writer>>

\* page.tsx:25-38, the submit event up to the first await
Submit ==
    /\ CanSubmit
    /\ Len(inflight) < MaxInflight
    /\ IF Trim(query) = <<>>
       THEN /\ rejected' = TRUE
            /\ UNCHANGED <<query, papers, loading, error, resultCount, maxResults, sortBy,
                           inflight, outcome, searchSeen, fetchSeen, writer>>
       ELSE /\ loading' = TRUE
            /\ error' = ""
            /\ papers' = ClearedPapers
            /\ inflight' = Append(Superseded(inflight), Invocation("search", NoResponse))
            /\ outcome' = "Searching"
            /\ searchSeen' = NoResponse
            /\ fetchSeen' = NoResponse
            /\ writer' = "latest"
            /\ rejected' = FALSE
            /\ UNCHANGED <<query, resultCount, maxResults, sortBy>>

\* page.tsx:38-52 and 95-100, invocation i resumes with the identifier-search response r
SearchResponse(i, r) ==
    /\ i \in DOMAIN inflight
    /\ inflight[i].pc = "search"
    /\ searchSeen' = r
    /\ fetchSeen' = NoResponse
    /\ writer' = WriterOf(inflight[i])
    /\ rejected' = FALSE
    /\ IF SearchThrows(r)
       THEN /\ error' = FailedMessage
            /\ loading' = FinallyLoading
            /\ outcome' = "Failed"
            /\ inflight' = Without(inflight, i)
            /\ UNCHANGED <<query, papers, resultCount, maxResults, sortBy>>
       ELSE IF ZeroIds(r.body)
       THEN /\ error' = NoResultsMessage
            /\ loading' = FALSE
            /\ outcome' = "NoResults"
            /\ inflight' = Without(inflight, i)
            /\ UNCHANGED <<query, papers, resultCount, maxResults, sortBy>>
       ELSE /\ resultCount' = TotalCount(r.body)
            /\ inflight' = [inflight EXCEPT ![i] = [@ EXCEPT !.pc = "fetch", !.searchResponse = r]]
            /\ UNCHANGED <<query, papers, loading, error, maxResults, sortBy, outcome>>

\* page.tsx:52-100, invocation i resumes with the detail-fetch response r
FetchResponse(i, r) ==
    /\ i \in DOMAIN inflight
    /\ inflight[i].pc = "fetch"
    /\ searchSeen' = inflight[i].searchResponse
    /\ fetchSeen' = r
    /\ writer' = WriterOf(inflight[i])
    /\ rejected' = FALSE
    /\ loading' = FinallyLoading
    /\ inflight' = Without(inflight, i)
    /\ IF FetchThrows(r)
       THEN /\ error' = FailedMessage
            /\ outcome' = "Failed"
            /\ UNCHANGED <<query, papers, resultCount, maxResults, sortBy>>
       ELSE /\ papers' = ParseArticles(r.body.doc, <<>>)
            /\ outcome' = "Success"
            /\ UNCHANGED <<query, error, resultCount, maxResults, sortBy>>

Queries == SeqsUpTo(Chars, MaxQueryLen)
MaxResultsOptions == {"10", "20", "50", "100"}
SortByOptions == {"relevance", "pub_date"}

ProviderResponds ==
    \/ \E i \in 1..MaxInflight, r \in SearchResponses : SearchResponse(i, r)
    \/ \E i \in 1..MaxInflight, r \in FetchResponses : FetchResponse(i, r)

Next ==
    \/ \E q \in Queries : SetQuery(q)
    \/ \E m \in MaxResultsOptions : SetMaxResults(m)
    \/ \E s \in SortByOptions : SetSortBy(s)
    \/ Submit
    \/ ProviderResponds

Spec == Init /\ [][Next]_vars

\* Every provider call eventually responds or fails
FairSpec == Spec /\ WF_vars(ProviderResponds)

----------------------------------------------------------------------------
(* The parser on its own: the component suspended at the detail fetch of a *)
(* search, resumed with payloads that exercise the record parser.          *)

ArticleKinds == TitleKinds \X BOOLEAN

ParserDocs ==
    {<<ArticleNode("text", TRUE, TRUE, kinds, 1)>> : kinds \in SeqsUpTo(AuthorKinds, MaxAuthors)}
    \cup {[i \in 1..Len(ks) |-> ArticleNode(ks[i][1], ks[i][2], i % 2 = 0, <<>>, i)] :
            ks \in SeqsUpTo(ArticleKinds, MaxArticles)}

ParserResponses == {[net |-> TRUE, ok |-> TRUE, body |-> XmlBody(d)] : d \in ParserDocs}

InitParser ==
    /\ query = <<"a">>
    /\ papers = <<>>
    /\ loading = TRUE
    /\ error = ""
    /\ resultCount = 3
    /\ maxResults = "20"
    /\ sortBy = "relevance"
    /\ inflight = <<Invocation("fetch",
                       [net |-> TRUE, ok |-> TRUE,
                        body |-> Envelope(TRUE, TRUE, IdList(1), El(<<"3">>))])>>
    /\ outcome = "Searching"
    /\ searchSeen = inflight[1].searchResponse
    /\ fetchSeen = NoResponse
    /\ writer = "latest"
    /\ rejected = FALSE

NextParser == \E r \in ParserResponses : FetchResponse(1, r)

SpecParser == InitParser /\ [][NextParser]_vars

----------------------------------------------------------------------------
(* Render: page.tsx:153-211 *)

\* page.tsx:153
ShowLoading == loading

\* page.tsx:155
ShowError == error # ""

\* page.tsx:157
ShowStats == resultCount > 0 /\ ~loading

\* Number.prototype.toLocaleString: the digit groups, separated by commas when shown
RECURSIVE ToLocaleString(_)
ToLocaleString(n) ==
    IF n < 1000 THEN <<n>> ELSE Append(ToLocaleString(n \div 1000), n % 1000)

\* page.tsx:159, Found {resultCount.toLocaleString()} research papers (showing {papers.length})
StatsLine == [found |-> ToLocaleString(resultCount), showing |-> Len(papers)]

\* page.tsx:163-165, one card per paper
NumCards == Len(papers)

\* page.tsx:178
ShowAuthors(paper) == Len(paper.authors) > 0

\* page.tsx:181
EtAl(paper) == Len(paper.authors) = AuthorCap

\* page.tsx:189
ShowDoi(paper) == paper.doi.present

\* page.tsx:207
ShowPlaceholder == ~loading /\ Len(papers) = 0 /\ error = ""

----------------------------------------------------------------------------
(* Properties *)

Terminal == {"Success", "NoResults", "Failed"}

\* The detail payload the last finished search parsed
SeenDoc == fetchSeen.body.doc

HasBoth(article) == article.ArticleTitle.present /\ article.PMID.present

\* The positions of the articles that have a title and a PMID element, ascending
CompleteIdx(doc) == SelectSeq([i \in 1..Len(doc) |-> i], LAMBDA i : HasBoth(doc[i]))

\* The display names of the named Author nodes of an article, in document order
IsNamed(author) == author.LastName.present \/ author.ForeName.present
DisplayName(author) ==
    CASE author.LastName.present /\ author.ForeName.present ->
             author.ForeName.text \o <<" ">> \o author.LastName.text
      [] author.LastName.present -> author.LastName.text
      [] OTHER -> author.ForeName.text
NamedAuthors(article) ==
    LET named == SelectSeq(article.Author, IsNamed)
    IN  [i \in 1..Len(named) |-> DisplayName(named[i])]

Parsed == outcome = "Success" /\ fetchSeen.net

\* C6 (as stated): at most 5 authors are kept, the first 5 named ones, and the
\* author line carries " et al." exactly when the article has exactly 5 named authors.
C6_EtAlIffExactlyFive ==
    Parsed =>
        \A k \in 1..Len(papers) :
            LET named == NamedAuthors(SeenDoc[CompleteIdx(SeenDoc)[k]])
            IN  /\ Len(papers[k].authors) <= 5
                /\ papers[k].authors = SubSeq(named, 1, Min(5, Len(named)))
                /\ EtAl(papers[k]) <=> (Len(named) = 5)

\* C6 (amended): at most 5 authors are kept, the first 5 named ones in document
\* order, and the author line carries " et al." exactly when the article has 5 or
\* more named authors.
C6_EtAlIffFiveOrMore ==
    Parsed =>
        /\ Len(papers) = Len(CompleteIdx(SeenDoc))
        /\ \A k \in 1..Len(papers) :
            LET named == NamedAuthors(SeenDoc[CompleteIdx(SeenDoc)[k]])
            IN  /\ Len(papers[k].authors) <= 5
                /\ papers[k].authors = SubSeq(named, 1, Min(5, Len(named)))
                /\ EtAl(papers[k]) <=> (Len(named) >= 5)
                /\ EtAl(papers[k]) => ShowAuthors(papers[k])

\* An article with 6 Author nodes, all named, shown with 5 names and " et al."
C6_Witness ==
    /\ Parsed
    /\ Len(papers) = 1
    /\ Len(SeenDoc[1].Author) = 6
    /\ Len(NamedAuthors(SeenDoc[1])) = 6
    /\ Len(papers[1].authors) = 5
    /\ EtAl(papers[1])

\* C7: the records emitted are exactly the articles that have both a title and a
\* PMID element, once each and in document order, and dropping the others is no error.
C7_ExactlyCompleteArticlesInOrder ==
    Parsed =>
        LET idx == CompleteIdx(SeenDoc)
        IN  /\ Len(papers) = Len(idx)
            /\ \A k \in 1..Len(papers) :
                /\ papers[k].pmid = SeenDoc[idx[k]].PMID.text
                /\ papers[k].id = SeenDoc[idx[k]].PMID.text
                /\ papers[k].title = SeenDoc[idx[k]].ArticleTitle.text
            /\ error = ""

\* Three articles, the middle one without a title or PMID: the outer two are shown
C7_Witness ==
    /\ Parsed
    /\ Len(SeenDoc) = 3
    /\ HasBoth(SeenDoc[1]) /\ ~HasBoth(SeenDoc[2]) /\ HasBoth(SeenDoc[3])
    /\ Len(papers) = 2
    /\ papers[1].pmid = "P1" /\ papers[2].pmid = "P3"

IsBlank(q) == \A i \in DOMAIN q : q[i] \in Whitespace

\* C1: a submit while the query is empty or whitespace-only issues no request and
\* leaves papers, error, loading, resultCount, query, maxResults and sortBy unchanged.
C1_BlankSubmitIsNoOp ==
    [][(IsBlank(query) /\ (rejected' \/ Len(inflight') > Len(inflight)))
          => (UNCHANGED uiState /\ UNCHANGED inflight)]_vars

\* A whitespace-only query submitted while the cards of an earlier search are shown
C1_Witness ==
    /\ rejected
    /\ query # <<>> /\ IsBlank(query)
    /\ NumCards > 0
    /\ resultCount > 0
    /\ inflight = <<>>

IsEnvelope(r) == r.net /\ r.body.kind = "json"

\* C2: when the identifier-search response holds no identifier (idlist empty or
\* missing), the search ends in NoResults: the no-results message is shown, no card
\* is shown, loading is false and no detail fetch is issued.
C2_ZeroIdsEndsNoResults ==
    (IsEnvelope(searchSeen) /\ Len(searchSeen.body.idlist) = 0) =>
        /\ outcome = "NoResults"
        /\ ShowError /\ error = NoResultsMessage
        /\ NumCards = 0
        /\ ~loading
        /\ fetchSeen = NoResponse
        /\ \A i \in DOMAIN inflight : inflight[i].pc # "fetch"

\* An empty idlist answered with HTTP success
C2_Witness ==
    /\ outcome = "NoResults"
    /\ searchSeen.ok
    /\ searchSeen.body.hasIdlist /\ searchSeen.body.idlist = <<>>
    /\ error = NoResultsMessage

Faulty(r) == r # NoResponse /\ (~r.net \/ ~r.ok)

\* C3: a network failure or a non-success HTTP status at either step ends the search
\* in Failed with the generic retry message, never in Success or NoResults.
C3_FaultsEndFailed ==
    (outcome \in Terminal /\ (Faulty(searchSeen) \/ Faulty(fetchSeen))) =>
        (outcome = "Failed" /\ error = FailedMessage)

\* C4: when the identifier search succeeds and the detail fetch rejects, the failure
\* message and no card are shown, nothing derived from the identifier-search response
\* is shown (the stats line included), and no request is outstanding.
C4_NothingPartialRendered ==
    (outcome = "Failed" /\ fetchSeen = NetworkFailure) =>
        /\ error = FailedMessage
        /\ NumCards = 0
        /\ ~ShowStats
        /\ inflight = <<>>

\* The value of a count text of the responses
CountValue(el) ==
    CASE ~el.present -> 0
      [] el.text = <<"0">> -> 0
      [] el.text = <<"3">> -> 3
      [] el.text = <<"1", "2", "3", "4">> -> 1234

Grouped(n) == IF n = 1234 THEN <<1, 234>> ELSE <<n>>

\* C5 (as stated): a successful search whose identifier search returned n >= 1
\* identifiers shows "Found n research papers (showing n)" and exactly n cards.
C5_FoundNShowingN ==
    (outcome = "Success" /\ fetchSeen.net) =>
        LET n == Len(searchSeen.body.idlist)
        IN  /\ ShowStats
            /\ StatsLine = [found |-> <<n>>, showing |-> n]
            /\ NumCards = n

\* C5 (amended): a successful search shows one card per article of the detail
\* payload that has a title and a PMID (k cards), and, when the total count c the
\* identifier search reported is positive, the stats line "Found c research papers
\* (showing k)"; when c is 0 or not a number no stats line is shown.
C5_FoundTotalShowingParsed ==
    (outcome = "Success" /\ fetchSeen.net) =>
        LET c == CountValue(searchSeen.body.count)
            k == Len(CompleteIdx(SeenDoc))
        IN  /\ NumCards = k
            /\ ShowStats <=> (c > 0)
            /\ StatsLine = [found |-> Grouped(c), showing |-> k]

\* The case of the specification: 3 identifiers, total 3, 3 complete articles,
\* page size 20, sort by relevance
C5_Witness ==
    /\ outcome = "Success"
    /\ Len(searchSeen.body.idlist) = 3
    /\ searchSeen.body.count = El(<<"3">>)
    /\ maxResults = "20" /\ sortBy = "relevance"
    /\ ShowStats
    /\ StatsLine = [found |-> <<3>>, showing |-> 3]
    /\ NumCards = 3

\* C8 (as stated): a second search can be started while an earlier one is pending.
C8_SubmitWhilePending == (inflight # <<>>) => CanSubmit

\* C8 (amended): while a search is pending loading is true and the submit button is
\* disabled, so at most one search is pending and every write of the display state
\* comes from the most recently submitted search.
C8_OneSearchAtATime ==
    /\ Len(inflight) <= 1
    /\ (inflight # <<>>) <=> loading
    /\ \A i \in DOMAIN inflight : inflight[i].latest
    /\ writer = "latest"

\* A later search has finished after an earlier one had set the result count
C8_Witness ==
    /\ outcome = "NoResults"
    /\ resultCount > 0
    /\ inflight = <<>>
    /\ writer = "latest"

\* C9: from an accepted submission until that search's outcome is applied, loading
\* is set and no card and no error message of an earlier search is displayed.
C9_ClearedWhilePending ==
    (inflight # <<>>) => (loading /\ ~ShowError /\ NumCards = 0 /\ ~ShowStats)

\* A search pending at its identifier search, submitted after an earlier search
C9_Witness ==
    /\ Len(inflight) = 1
    /\ inflight[1].pc = "search"
    /\ resultCount > 0
    /\ loading

C10_OneOutcome ==
    /\ outcome = "Searching" => loading /\ ~ShowError /\ NumCards = 0
    /\ outcome = "Success" => ~loading /\ ~ShowError
    /\ outcome = "NoResults" => ~loading /\ error = NoResultsMessage /\ NumCards = 0
    /\ outcome = "Failed" => ~loading /\ error = FailedMessage /\ NumCards = 0
    /\ ~(ShowError /\ NumCards > 0)

\* C10: every accepted submission enters Searching and, the provider answering,
\* leaves it with loading false in exactly one of Success (no error message),
\* NoResults (no-results message, no card) and Failed (failure message, no card);
\* an error message and cards are never shown together.
C10_SearchingLeadsToOneOutcome ==
    /\ []C10_OneOutcome
    /\ (outcome = "Searching") ~> (outcome \in Terminal /\ ~loading)

\* A search that ended in Success with cards, after an earlier one
C10_Witness ==
    /\ outcome = "Success"
    /\ NumCards > 0
    /\ ~loading
    /\ ~ShowError

====
